---------------------------- MODULE Spec2Model ----------------------------
(***************************************************************************)
(* Chaos-game simulation workers of m-sarabi/chaos-game.                   *)
(*                                                                         *)
(* Two worker variants are modelled over the same variables:               *)
(*   - src/worker_v3.js         (lookup-table walk, requestAnimationFrame  *)
(*                               loop), definitions without suffix;        *)
(*   - src/vite.config.js:137-  (select-and-retry walk, setTimeout loop,   *)
(*                               getBlob pauses the loop), suffix "Vite".  *)
(*                                                                         *)
(* Numbers.  JS Numbers that hold coordinates are modelled in fixed point, *)
(* Scale units per pixel, every arithmetic result rounded to the nearest   *)
(* unit.  cos/sin/ln are tables in thousandths.  Normalised densities are  *)
(* thousandths, the EMA is in 1/EmaScale pixels.  null is 0 (ids handed    *)
(* out by the host scheduler are positive, so truthiness is preserved).    *)
(***************************************************************************)
EXTENDS Integers, Sequences, FiniteSets, TLC

VARIABLES
    state,      \* the worker's `state` object
    ctx,        \* TRUE once initCanvas has stored the 2d context
    pending,    \* ids of drawLoop continuations the host scheduler still holds
    blobs,      \* pending convertToBlob callbacks (each: the captured wasRunning)
    posted,     \* what the last handler posted to the host, in order
    walked,     \* how many of the last entries of prevIndex the last handler chose
    halted,     \* a stop message was handled and no play message since
    handled,    \* the message or callback the last step handled
    quiet       \* how many stability checks in a row, up to the last one, saw no new pixel

vars == <<state, ctx, pending, blobs, posted, walked, halted, handled, quiet>>

----------------------------------------------------------------------------
(* Bounds of the model and scaled program constants *)

\* units per pixel of the fixed-point coordinates
Scale == 8
\* units per pixel of the fixed-point EMA
EmaScale == 10
\* worker_v3.js:35 DEFAULT_BATCH_SIZE = 10000, scaled down
DEFAULT_BATCH_SIZE == 1
\* worker_v3.js:36 DEFAULT_BURN_IN_COUNT = 300, scaled down
DEFAULT_BURN_IN_COUNT == 2
\* worker_v3.js:38 DEFAULT_STABILITY_INTERVAL = 1000000, scaled down
DEFAULT_STABILITY_INTERVAL == 2
\* worker_v3.js:39 STABILITY_WINDOW = 10, scaled down
STABILITY_WINDOW == 2
\* worker_v3.js:231 capacity of prevIndex (10), scaled down
HistoryCap == 3
\* batches one scheduling quantum (TIME_BUDGET) may run, at least 1
MaxBatchesPerQuantum == 2
\* no quantum starts once the density matrix holds this many hits
MaxHits == 3
\* convertToBlob callbacks in flight
MaxBlobs == 1
\* timers of the vite worker pending at once
\* batches of hits the run left alone may plot
MaxHitsFair == 10

MaxPending == 2

----------------------------------------------------------------------------
(* Arithmetic helpers *)

\* nearest integer to a/b (b > 0), ties towards +infinity: Math.round
RoundDiv(a, b) == (2 * a + b) \div (2 * b)

\* truncation towards zero of a/b (b > 0): the `| 0` of vite.config.js
TruncDiv(a, b) == IF a >= 0 THEN a \div b ELSE -((-a) \div b)

Abs(a) == IF a < 0 THEN -a ELSE a

Max(S) == CHOOSE x \in S : \A y \in S : y <= x

Last(s) == s[Len(s)]

RECURSIVE SumSeq(_)
SumSeq(s) == IF s = <<>> THEN 0 ELSE s[1] + SumSeq(Tail(s))

RECURSIVE Pow(_, _)
\* (v/1000) ** g for a natural g, in thousandths
Pow(v, g) == IF g = 0 THEN 1000 ELSE (v * Pow(v, g - 1)) \div 1000

\* Math.cos / Math.sin of -PI/2 + 2*PI*i/sides (i from 0), in thousandths
CosTab(sides, i) ==
    CASE sides = 2 -> <<0, 0>>[i + 1]
      [] sides = 3 -> <<0, 866, -866>>[i + 1]
      [] sides = 4 -> <<0, 1000, 0, -1000>>[i + 1]
      [] sides = 5 -> <<0, 951, 588, -588, -951>>[i + 1]

SinTab(sides, i) ==
    CASE sides = 2 -> <<-1000, 1000>>[i + 1]
      [] sides = 3 -> <<-1000, 500, 500>>[i + 1]
      [] sides = 4 -> <<-1000, 0, 1000, 0>>[i + 1]
      [] sides = 5 -> <<-1000, -309, 809, 809, -309>>[i + 1]

\* Math.log(n) in thousandths
Ln1000(n) ==
    IF n <= 1 THEN 0
    ELSE IF n <= 12
         THEN <<0, 693, 1099, 1386, 1609, 1792, 1946, 2079, 2197, 2303, 2398, 2485>>[n]
         ELSE 2485 + 80 * (n - 12)


----------------------------------------------------------------------------
(* The machine: the worker state together with the host-side scheduler,    *)
(* as one record the handlers transform.  threw / ret are transient: an    *)
(* uncaught exception (the rest of the handler is skipped) and an early    *)
(* return from drawLoop.                                                   *)

Machine ==
    [st |-> state, ctx |-> ctx, pending |-> pending, blobs |-> blobs,
     posted |-> <<>>, walked |-> 0, quiet |-> quiet, threw |-> FALSE, ret |-> FALSE]

Commit(m) ==
    /\ state' = m.st
    /\ ctx' = m.ctx
    /\ pending' = m.pending
    /\ blobs' = m.blobs
    /\ posted' = IF m.threw THEN Append(m.posted, [type |-> "error"]) ELSE m.posted
    /\ walked' = IF m.walked > Len(m.st.prevIndex) THEN Len(m.st.prevIndex) ELSE m.walked
    /\ quiet' = m.quiet

Bind(S, F(_)) == UNION {F(m) : m \in S}

Throw(m) == [m EXCEPT !.threw = TRUE]

Post(m, msg) == [m EXCEPT !.posted = Append(@, msg)]

Zeros(n) == [k \in 1..n |-> 0]

----------------------------------------------------------------------------
(* Helper functions, worker_v3.js:43-97 *)

\* a colour string '#rgb' / '#rrggbb' is the sequence of its hex digits
colorToRGB(color) ==
    LET hex == IF Len(color) \in {3, 4}
               THEN [k \in 1..(2 * Len(color)) |-> color[(k + 1) \div 2]]
               ELSE color
    IN  [r |-> 16 * hex[1] + hex[2], g |-> 16 * hex[3] + hex[4], b |-> 16 * hex[5] + hex[6]]

\* t in thousandths
lerp(a, b, t) == RoundDiv(1000 * a + t * (b - a), 1000)

\* (a << 24) | (b << 16) | (g << 8) | r as stored in the Uint32Array: its four bytes
Pack(a, b, g, r) == <<a % 256, b % 256, g % 256, r % 256>>

\* the Uint32 0
Pixel0 == Pack(0, 0, 0, 0)

bg32(st) == Pack(255, st.bgColor.b, st.bgColor.g, st.bgColor.r)

calculatePixelValue(st, val) ==
    IF ~st.settings.solidBg
    THEN Pack(lerp(0, 255, val), st.fgColor.b, st.fgColor.g, st.fgColor.r)
    ELSE Pack(255, lerp(st.bgColor.b, st.fgColor.b, val),
              lerp(st.bgColor.g, st.fgColor.g, val),
              lerp(st.bgColor.r, st.fgColor.r, val))

\* the zero branch taken up to log(2), that is for maxValue <= 1
normalizeValueZeroAtOne(st, rawValue, logMax) ==
    IF logMax <= Ln1000(2) THEN 0
    ELSE Pow((Ln1000(1 + rawValue) * 1000) \div logMax, st.settings.gammaExponent)

normalizeValue(st, rawValue, logMax) ==
    IF logMax <= 0 THEN 0
    ELSE Pow((Ln1000(1 + rawValue) * 1000) \div logMax, st.settings.gammaExponent)

----------------------------------------------------------------------------
(* Geometry, worker_v3.js:125-211 *)

updateColors(m) ==
    [m EXCEPT !.st.fgColor = colorToRGB(m.st.settings.fgColor),
              !.st.bgColor = colorToRGB(m.st.settings.bgColor)]

\* the main polygon: sides vertices on the circle, first one pointing up
MainVertices(sides, radius, center) ==
    [i \in 1..sides |->
        [x |-> RoundDiv(CosTab(sides, i - 1) * radius, 1000) + center.x,
         y |-> RoundDiv(SinTab(sides, i - 1) * radius, 1000) + center.y]]

\* midpoint i (0-based) joins main vertices i and (i + 1) % sides
Midpoint(main, sides, i) ==
    [x |-> RoundDiv(main[i + 1].x + main[((i + 1) % sides) + 1].x, 2),
     y |-> RoundDiv(main[i + 1].y + main[((i + 1) % sides) + 1].y, 2)]

\* the midpoints pushed after the main vertices instead of spliced between them
WithMidpointsAppended(main, sides) ==
    [k \in 1..(2 * Len(main)) |->
        IF k <= Len(main) THEN main[k] ELSE Midpoint(main, sides, k - Len(main) - 1)]

\* splice(2 * i + 1, 0, midpoints[i]) for every i: main and midpoints interleaved
WithMidpoints(main, sides) ==
    [k \in 1..(2 * Len(main)) |->
        IF k % 2 = 1 THEN main[(k + 1) \div 2] ELSE Midpoint(main, sides, (k \div 2) - 1)]

Vertices(settings, radius, center) ==
    LET main == MainVertices(settings.sides, radius, center)
        ring == IF settings.midpointVertex THEN WithMidpoints(main, settings.sides) ELSE main
    IN  IF settings.centerVertex THEN Append(ring, center) ELSE ring

\* the neighbour rules applied to the centre vertex as to a ring vertex
AllowedFromRingOnly(settings, n, i) ==
    LET sides == IF settings.midpointVertex THEN settings.sides * 2 ELSE settings.sides
        left  == (i - 1 + sides) % sides
        right == (i + 1) % sides
    IN  IF settings.restriction \in {"no-repeat", "no-double-repeat", "no-return"}
        THEN {j \in 0..(n - 1) : j # i}
        ELSE IF settings.restriction \in {"no-neighbor", "no-neighbor-after-repeat"}
        THEN {j \in 0..(n - 1) : j # left /\ j # right}
        ELSE 0..(n - 1)

\* allowed next indices (0-based) after index i, for n vertices
AllowedFrom(settings, n, i) ==
    LET sides == IF settings.midpointVertex THEN settings.sides * 2 ELSE settings.sides
        left  == (i - 1 + sides) % sides
        right == (i + 1) % sides
    IN  IF settings.restriction \in {"no-repeat", "no-double-repeat", "no-return"}
        THEN {j \in 0..(n - 1) : j # i}
        ELSE IF settings.restriction \in {"no-neighbor", "no-neighbor-after-repeat"}
        THEN {j \in 0..(n - 1) : i >= sides \/ (j # left /\ j # right)}
        ELSE 0..(n - 1)

buildRestrictions(m) ==
    [m EXCEPT !.st.allowedMoves =
        [k \in 1..Len(m.st.vertices) |-> AllowedFrom(m.st.settings, Len(m.st.vertices), k - 1)]]

\* samples of sqrt(r1) and of r2, in halves
RandomHalves == {0, 1}

getRandomPointInShape(st) ==
    LET n == Len(st.mainVertices)
    IN  {LET v1 == st.center
             v2 == st.mainVertices[t + 1]
             v3 == st.mainVertices[((t + 1) % n) + 1]
         IN  [x |-> RoundDiv((2 - sq) * 2 * v1.x + sq * (2 - r2) * v2.x + sq * r2 * v3.x, 4),
              y |-> RoundDiv((2 - sq) * 2 * v1.y + sq * (2 - r2) * v2.y + sq * r2 * v3.y, 4)]
         : t \in 0..(n - 1), sq \in RandomHalves, r2 \in RandomHalves}

----------------------------------------------------------------------------
(* Walk engine, worker_v3.js:213-236 *)

\* prevIndex.at(-k)
At(prevIndex, k) == prevIndex[Len(prevIndex) - k + 1]

\* push, then pop (the newest entry goes) when longer than the capacity
PushHistoryDropNewest(prevIndex, currentIndex) ==
    LET h == Append(prevIndex, currentIndex)
    IN  IF Len(h) > HistoryCap THEN SubSeq(h, 1, HistoryCap) ELSE h

\* push, then shift when longer than the capacity
PushHistory(prevIndex, currentIndex) ==
    LET h == Append(prevIndex, currentIndex)
    IN  IF Len(h) > HistoryCap THEN Tail(h) ELSE h

\* current += (vertex - current) * jumpDistance; jumpDistance in halves
MoveToward(p, v, jumpDistance) ==
    [x |-> p.x + RoundDiv((v.x - p.x) * jumpDistance, 2),
     y |-> p.y + RoundDiv((v.y - p.y) * jumpDistance, 2)]

\* the uniform branch of updateCurrentPoint
UniformChoice(settings, prevIndex) ==
    \/ Len(prevIndex) = 0
    \/ (settings.restriction = "no-return" /\ Len(prevIndex) < 2)
    \/ /\ settings.restriction \in {"no-neighbor-after-repeat", "no-double-repeat"}
       /\ (Len(prevIndex) < 2 \/ At(prevIndex, 1) # At(prevIndex, 2))

\* the last entry, whatever the rule
LookbackLast(settings, prevIndex) == At(prevIndex, 1)

\* the index whose table row is read
Lookback(settings, prevIndex) ==
    At(prevIndex, IF settings.restriction = "no-return" THEN 2 ELSE 1)

\* the indices one step may choose; {} stands for the TypeError on a missing row
Candidates(st, prevIndex) ==
    IF UniformChoice(st.settings, prevIndex) THEN 0..(Len(st.vertices) - 1)
    ELSE IF Lookback(st.settings, prevIndex) + 1 > Len(st.allowedMoves) THEN {}
    ELSE st.allowedMoves[Lookback(st.settings, prevIndex) + 1]

\* The walk reads settings, vertices and allowedMoves of st and changes only
\* currentPoint and prevIndex: w holds those two (and whether the step threw).
Walk(m) ==
    [currentPoint |-> m.st.currentPoint, prevIndex |-> m.st.prevIndex,
     walked |-> m.walked, threw |-> m.threw]

WithWalk(m, w) ==
    [m EXCEPT !.st.currentPoint = w.currentPoint, !.st.prevIndex = w.prevIndex,
              !.walked = w.walked, !.threw = w.threw]

WalkStep(st, w) ==
    IF w.threw THEN {w}
    ELSE IF Candidates(st, w.prevIndex) = {} THEN {[w EXCEPT !.threw = TRUE]}
    ELSE {[w EXCEPT !.prevIndex = PushHistory(@, c),
                    !.currentPoint = MoveToward(@, st.vertices[c + 1], st.settings.jumpDistance),
                    !.walked = @ + 1]
          : c \in Candidates(st, w.prevIndex)}

updateCurrentPoint(m) == {WithWalk(m, w) : w \in WalkStep(m.st, Walk(m))}

RECURSIVE WalkSteps(_, _, _)
\* for (i = 0; i < n; i++) updateCurrentPoint(), over every outcome
WalkSteps(st, W, n) ==
    IF n = 0 THEN W ELSE WalkSteps(st, UNION {WalkStep(st, w) : w \in W}, n - 1)

\* burnIn() from each of the current points P
burnIn(m, P) ==
    {WithWalk(m, w) :
        w \in WalkSteps(m.st, {[Walk(m) EXCEPT !.currentPoint = p] : p \in P},
                        DEFAULT_BURN_IN_COUNT)}

preDraw(m) ==
    IF m.threw THEN {m}
    ELSE
    LET s    == m.st.settings
        main == MainVertices(s.sides, m.st.radius, m.st.center)
        m1   == [m EXCEPT !.st.vertices = Vertices(s, m.st.radius, m.st.center),
                          !.st.mainVertices = main,
                          !.st.cosAngles = [i \in 1..s.sides |-> -SinTab(s.sides, i - 1)],
                          !.st.sinAngles = [i \in 1..s.sides |-> CosTab(s.sides, i - 1)]]
        m2   == buildRestrictions(m1)
    IN  burnIn(m2, getRandomPointInShape(m2.st))

----------------------------------------------------------------------------
(* Density accumulator, worker_v3.js:238-275 *)

NoCell == -1

rotatePoint(center, p, cos, sin) ==
    [x |-> RoundDiv((p.x - center.x) * cos - (p.y - center.y) * sin, 1000) + center.x,
     y |-> RoundDiv((p.x - center.x) * sin + (p.y - center.y) * cos, 1000) + center.y]

\* Math.round of a coordinate, in pixels
RoundPx(u) == RoundDiv(u, Scale)

\* index = y * canvasSize + x, whatever x and y are
CellIndex(st, p) == RoundPx(p.y) * st.settings.canvasSize + RoundPx(p.x)

\* the step plotting the generated point alone, whatever symmetrical says
PlotIndicesUnexpanded(st) == <<CellIndex(st, st.currentPoint)>>

\* the indices one step writes, in order; a rotation the tables do not hold gives
\* NaN coordinates and a NaN index, which addresses no cell
PlotIndices(st) ==
    LET p == st.currentPoint
        c == st.center
        q == [x |-> 2 * c.x - p.x, y |-> p.y]
    IN  IF st.settings.symmetrical
        THEN [k \in 1..(2 * st.settings.sides) |->
                LET i == (k + 1) \div 2
                IN  IF i > Len(st.cosAngles) THEN NoCell
                    ELSE CellIndex(st, rotatePoint(c, IF k % 2 = 1 THEN p ELSE q,
                                                   st.cosAngles[i], st.sinAngles[i]))]
        ELSE <<CellIndex(st, p)>>

\* the loop body with the hit subtracted instead of added
WriteCellDecrement(st, index) ==
    IF index < 0 \/ index >= Len(st.imageMatrix) THEN st
    ELSE LET val == st.imageMatrix[index + 1] - 1
         IN  [st EXCEPT !.newPixelsSinceLastCheck =
                            IF st.imageMatrix[index + 1] = 0 THEN @ + 1 ELSE @,
                        !.imageMatrix[index + 1] = val,
                        !.maxValue = IF val > @ THEN val ELSE @]

\* one pass of the loop body at lines 264-273; an index outside the typed array
\* reads undefined and its store is dropped
WriteCell(st, index) ==
    IF index < 0 \/ index >= Len(st.imageMatrix) THEN st
    ELSE LET val == st.imageMatrix[index + 1] + 1
         IN  [st EXCEPT !.newPixelsSinceLastCheck =
                            IF st.imageMatrix[index + 1] = 0 THEN @ + 1 ELSE @,
                        !.imageMatrix[index + 1] = val,
                        !.maxValue = IF val > @ THEN val ELSE @]

RECURSIVE WriteCells(_, _)
WriteCells(st, indices) ==
    IF indices = <<>> THEN st ELSE WriteCells(WriteCell(st, Head(indices)), Tail(indices))

Plot(m) == IF m.threw THEN m ELSE [m EXCEPT !.st = WriteCells(m.st, PlotIndices(m.st))]

updateMatrix(m) == {Plot(x) : x \in updateCurrentPoint(m)}

----------------------------------------------------------------------------
(* Colour normaliser and rendering, worker_v3.js:277-364 *)

NormalizedPixel(st, i) ==
    calculatePixelValue(st, normalizeValue(st, st.imageMatrix[i], Ln1000(1 + st.maxValue)))

\* the loop adding the normalised colour onto the pixel instead of storing it
updatePixelDataAccumulate(m) ==
    [m EXCEPT !.st.pixelData =
        [i \in DOMAIN @ |->
            IF i \in DOMAIN m.st.imageMatrix /\ m.st.imageMatrix[i] > 0
            THEN LET p == NormalizedPixel(m.st, i)
                 IN  Pack(@[i][1] + p[1], @[i][2] + p[2], @[i][3] + p[3], @[i][4] + p[4])
            ELSE @[i]]]

updatePixelDataFromMatrix(m) ==
    [m EXCEPT !.st.pixelData =
        [i \in DOMAIN @ |->
            IF i \in DOMAIN m.st.imageMatrix /\ m.st.imageMatrix[i] > 0
            THEN NormalizedPixel(m.st, i) ELSE @[i]]]

\* erase() with the maximum reset to 0 instead of 1
eraseMaxZero(m) ==
    IF m.threw \/ ~m.ctx THEN m
    ELSE [m EXCEPT !.st.imageMatrix = Zeros(Len(@)),
                   !.st.maxValue = 0,
                   !.st.prevIndex = <<>>,
                   !.walked = 0,
                   !.quiet = 0,
                   !.st.iterations = 0,
                   !.st.stabilityCounter = 0,
                   !.st.newPixelsSinceLastCheck = 0,
                   !.st.newPixelsEma = 0,
                   !.st.filledPixels = 0,
                   !.st.pixelData = [i \in DOMAIN @ |->
                                        IF ~m.st.settings.solidBg THEN Pixel0 ELSE bg32(m.st)]]

\* erase() without the fill of the pixel buffer
eraseKeepPixels(m) ==
    IF m.threw \/ ~m.ctx THEN m
    ELSE [m EXCEPT !.st.imageMatrix = Zeros(Len(@)),
                   !.st.maxValue = 1,
                   !.st.prevIndex = <<>>,
                   !.walked = 0,
                   !.quiet = 0,
                   !.st.iterations = 0,
                   !.st.stabilityCounter = 0,
                   !.st.newPixelsSinceLastCheck = 0,
                   !.st.newPixelsEma = 0,
                   !.st.filledPixels = 0]

erase(m) ==
    IF m.threw \/ ~m.ctx THEN m
    ELSE [m EXCEPT !.st.imageMatrix = Zeros(Len(@)),
                   !.st.maxValue = 1,
                   !.st.prevIndex = <<>>,
                   !.walked = 0,
                   !.quiet = 0,
                   !.st.iterations = 0,
                   !.st.stabilityCounter = 0,
                   !.st.newPixelsSinceLastCheck = 0,
                   !.st.newPixelsEma = 0,
                   !.st.filledPixels = 0,
                   !.st.pixelData = [i \in DOMAIN @ |->
                                        IF ~m.st.settings.solidBg THEN Pixel0 ELSE bg32(m.st)]]

\* new ImageData(bytes, canvasSize, canvasSize) throws unless the buffer holds
\* exactly canvasSize * canvasSize pixels
renderCanvas(m) ==
    IF ~m.ctx THEN m
    ELSE IF Len(m.st.pixelData) # m.st.settings.canvasSize * m.st.settings.canvasSize
            \/ m.st.settings.canvasSize = 0
    THEN Throw(m)
    ELSE m

prepareCanvasForOutput(m) == renderCanvas(updatePixelDataFromMatrix(m))

renderFrame(m) ==
    IF m.threw THEN m
    ELSE LET r == prepareCanvasForOutput(m)
         IN  IF r.threw THEN r ELSE Post(r, [type |-> "render"])

----------------------------------------------------------------------------
(* Stability detector, worker_v3.js:366-384 *)

\* EMA_ALPHA = 0.2: ema = (newPixels + 4 * ema) / 5
NextEma(st) == RoundDiv(EmaScale * st.newPixelsSinceLastCheck + 4 * st.newPixelsEma, 5)

\* a threshold of 0: no EMA is under it
ThresholdZero(st) == 0

\* state.settings.stabilityNewPixelsThreshold || 1.0
Threshold(st) ==
    IF st.settings.stabilityNewPixelsThreshold = 0 THEN EmaScale
    ELSE st.settings.stabilityNewPixelsThreshold

\* checkStability returning true one quiet check too late
ConvergedLate(st) ==
    NextEma(st) < Threshold(st) /\ st.stabilityCounter + 1 >= STABILITY_WINDOW + 1

\* what checkStability returns, from the state it is called in
Converged(st) == NextEma(st) < Threshold(st) /\ st.stabilityCounter + 1 >= STABILITY_WINDOW

\* checkStability without the else branch: a check that is not quiet leaves
\* the counter as it is
checkStabilityNoReset(m) ==
    LET st == m.st
        m1 == [m EXCEPT !.st.iterations = 0,
                        !.quiet = IF st.newPixelsSinceLastCheck = 0 THEN @ + 1 ELSE 0,
                        !.st.newPixelsEma = NextEma(st),
                        !.st.filledPixels = @ + st.newPixelsSinceLastCheck,
                        !.st.newPixelsSinceLastCheck = 0,
                        !.st.stabilityCounter =
                            IF NextEma(st) < Threshold(st) THEN @ + 1 ELSE @]
    IN  Post(m1, [type |-> "stabilityCheck", newPixelsEma |-> NextEma(st)])

checkStability(m) ==
    LET st == m.st
        m1 == [m EXCEPT !.st.iterations = 0,
                        !.quiet = IF st.newPixelsSinceLastCheck = 0 THEN @ + 1 ELSE 0,
                        !.st.newPixelsEma = NextEma(st),
                        !.st.filledPixels = @ + st.newPixelsSinceLastCheck,
                        !.st.newPixelsSinceLastCheck = 0,
                        !.st.stabilityCounter =
                            IF NextEma(st) < Threshold(st) THEN @ + 1 ELSE 0]
    IN  Post(m1, [type |-> "stabilityCheck", newPixelsEma |-> NextEma(st)])

----------------------------------------------------------------------------
(* Main loop and controls, worker_v3.js:388-437 *)

\* an id the host scheduler has not handed out among those still known
FreshId(m) ==
    CHOOSE id \in 1..(Cardinality(m.pending) + 3) :
        /\ id \notin m.pending
        /\ id # m.st.animationFrameId
        /\ id # m.st.loopId
        /\ \A k \in 1..(id - 1) : k \in m.pending \/ k = m.st.animationFrameId \/ k = m.st.loopId

\* stop() without its final renderFrame()
stopNoRender(m) ==
    IF m.threw \/ ~m.st.isRunning THEN m
    ELSE [m EXCEPT !.st.runTime = 0,
                   !.st.isRunning = FALSE,
                   !.pending = IF m.st.animationFrameId # 0
                               THEN @ \ {m.st.animationFrameId} ELSE @,
                   !.st.animationFrameId = 0]

stop(m) ==
    IF m.threw \/ ~m.st.isRunning THEN m
    ELSE renderFrame([m EXCEPT !.st.runTime = 0,
                               !.st.isRunning = FALSE,
                               !.pending = IF m.st.animationFrameId # 0
                                           THEN @ \ {m.st.animationFrameId} ELSE @,
                               !.st.animationFrameId = 0])

\* state.animationFrameId = self.requestAnimationFrame(drawLoop)
Schedule(m) ==
    LET id == FreshId(m)
    IN  [m EXCEPT !.st.animationFrameId = id, !.pending = @ \cup {id}]

\* play() erasing what was accumulated before it schedules the loop
playRestart(m) ==
    IF m.st.isRunning THEN m
    ELSE Schedule(erase([m EXCEPT !.st.isRunning = TRUE, !.st.runTime = 1]))

play(m) ==
    IF m.st.isRunning THEN m
    ELSE Schedule([m EXCEPT !.st.isRunning = TRUE, !.st.runTime = 1])

RECURSIVE MatrixSteps(_, _)
\* for (i = 0; i < n; i++) updateMatrix(), over every outcome
MatrixSteps(S, n) == IF n = 0 THEN S ELSE MatrixSteps(Bind(S, updateMatrix), n - 1)

\* lines 396-405 without the stop() and the return after the finish message
AfterBatchNoStop(m) ==
    IF m.threw THEN m
    ELSE
    LET ppb == IF m.st.settings.symmetrical THEN m.st.settings.sides * 2 ELSE 1
        m1  == [m EXCEPT !.st.iterations = @ + DEFAULT_BATCH_SIZE * ppb]
    IN  IF m1.st.settings.autoStop /\ m1.st.iterations >= DEFAULT_STABILITY_INTERVAL
        THEN IF Converged(m1.st)
             THEN Post(checkStability(m1), [type |-> "finish", timed |-> m1.st.runTime # 0])
             ELSE checkStability(m1)
        ELSE m1

\* lines 396-405 with stop() called before the finish message is posted
AfterBatchStopFirst(m) ==
    IF m.threw THEN m
    ELSE
    LET ppb == IF m.st.settings.symmetrical THEN m.st.settings.sides * 2 ELSE 1
        m1  == [m EXCEPT !.st.iterations = @ + DEFAULT_BATCH_SIZE * ppb]
    IN  IF m1.st.settings.autoStop /\ m1.st.iterations >= DEFAULT_STABILITY_INTERVAL
        THEN IF Converged(m1.st)
             THEN LET m2 == stop(checkStability(m1))
                  IN  [Post(m2, [type |-> "finish", timed |-> m2.st.runTime # 0])
                          EXCEPT !.ret = TRUE]
             ELSE checkStability(m1)
        ELSE m1

\* lines 396-405: the counter, the stability check, the finish
AfterBatch(m) ==
    IF m.threw THEN m
    ELSE
    LET ppb == IF m.st.settings.symmetrical THEN m.st.settings.sides * 2 ELSE 1
        m1  == [m EXCEPT !.st.iterations = @ + DEFAULT_BATCH_SIZE * ppb]
    IN  IF m1.st.settings.autoStop /\ m1.st.iterations >= DEFAULT_STABILITY_INTERVAL
        THEN IF Converged(m1.st)
             THEN [stop(Post(checkStability(m1),
                             [type |-> "finish", timed |-> m1.st.runTime # 0]))
                     EXCEPT !.ret = TRUE]
             ELSE checkStability(m1)
        ELSE m1

Batch(m) ==
    IF m.threw \/ m.ret THEN {m}
    ELSE {AfterBatch(x) : x \in MatrixSteps({m}, DEFAULT_BATCH_SIZE)}

RECURSIVE Batches(_, _)
\* the while loop of the time budget, n iterations long
Batches(S, n) == IF n = 0 THEN S ELSE Batches(Bind(S, Batch), n - 1)

\* lines 408-415 with the render requested whatever liveRendering says
AfterLoopAlwaysRender(m, due) ==
    IF m.threw \/ m.ret THEN m
    ELSE Schedule(IF due THEN renderFrame(m) ELSE m)

\* lines 408-415; due: more than DEFAULT_UPDATE_DELAY ms since the last update
AfterLoop(m, due) ==
    IF m.threw \/ m.ret THEN m
    ELSE Schedule(IF due /\ m.st.settings.liveRendering THEN renderFrame(m) ELSE m)

drawLoop(m, n, due) ==
    IF ~m.st.isRunning THEN {m}
    ELSE {AfterLoop(x, due) : x \in Batches({m}, n)}

----------------------------------------------------------------------------
(* Setup, worker_v3.js:103-123 *)

Resized(m, newSettings) ==
    [m EXCEPT !.st.settings = newSettings,
              !.st.center = [x |-> (newSettings.canvasSize * Scale) \div 2,
                             y |-> (newSettings.canvasSize * Scale) \div 2],
              !.st.radius = (newSettings.canvasSize * Scale) \div 2 - newSettings.padding * Scale,
              !.st.imageMatrix = Zeros(newSettings.canvasSize * newSettings.canvasSize),
              !.st.pixelData =
                  [k \in 1..(newSettings.canvasSize * newSettings.canvasSize) |-> Pixel0]]

setup(m, newSettings) ==
    IF m.threw THEN {m}
    ELSE {erase(x) : x \in preDraw(updateColors(Resized(m, newSettings)))}

----------------------------------------------------------------------------
(* The worker of vite.config.js (lines 137-822): what differs from          *)
(* worker_v3.js.                                                           *)

\* the retry loop rejecting, under the two neighbour rules, the last index too
ForbiddenWithSelf(settings, prevIndex, currentIndex) ==
    LET hasLast     == Len(prevIndex) >= 1
        hasPrevLast == Len(prevIndex) >= 2
        sides       == IF settings.midpointVertex THEN settings.sides * 2 ELSE settings.sides
        diff        == Abs(currentIndex - At(prevIndex, 1))
    IN  CASE settings.restriction = "no-repeat" ->
                hasLast /\ currentIndex = At(prevIndex, 1)
          [] settings.restriction = "no-double-repeat" ->
                hasPrevLast /\ currentIndex = At(prevIndex, 1) /\ currentIndex = At(prevIndex, 2)
          [] settings.restriction = "no-return" ->
                hasPrevLast /\ currentIndex = At(prevIndex, 2)
          [] settings.restriction = "no-neighbor" ->
                /\ hasLast /\ At(prevIndex, 1) < sides /\ currentIndex < sides
                /\ (diff = 0 \/ diff = 1 \/ diff = sides - 1)
          [] settings.restriction = "no-neighbor-after-repeat" ->
                /\ hasPrevLast /\ At(prevIndex, 1) = At(prevIndex, 2)
                /\ At(prevIndex, 1) < sides /\ currentIndex < sides
                /\ (diff = 0 \/ diff = 1 \/ diff = sides - 1)
          [] OTHER -> FALSE

\* lines 432-463: whether the drawn index is rejected by the retry loop
Forbidden(settings, prevIndex, currentIndex) ==
    LET hasLast     == Len(prevIndex) >= 1
        hasPrevLast == Len(prevIndex) >= 2
        sides       == IF settings.midpointVertex THEN settings.sides * 2 ELSE settings.sides
        diff        == Abs(currentIndex - At(prevIndex, 1))
    IN  CASE settings.restriction = "no-repeat" ->
                hasLast /\ currentIndex = At(prevIndex, 1)
          [] settings.restriction = "no-double-repeat" ->
                hasPrevLast /\ currentIndex = At(prevIndex, 1) /\ currentIndex = At(prevIndex, 2)
          [] settings.restriction = "no-return" ->
                hasPrevLast /\ currentIndex = At(prevIndex, 2)
          [] settings.restriction = "no-neighbor" ->
                /\ hasLast /\ At(prevIndex, 1) < sides /\ currentIndex < sides
                /\ (diff = 1 \/ diff = sides - 1)
          [] settings.restriction = "no-neighbor-after-repeat" ->
                /\ hasPrevLast /\ At(prevIndex, 1) = At(prevIndex, 2)
                /\ At(prevIndex, 1) < sides /\ currentIndex < sides
                /\ (diff = 1 \/ diff = sides - 1)
          [] OTHER -> FALSE

\* the indices the select-and-retry loop can leave with
CandidatesVite(st, prevIndex) ==
    {c \in 0..(Len(st.vertices) - 1) : ~Forbidden(st.settings, prevIndex, c)}

\* with no legal index the loop never exits: the step has no outcome
WalkStepVite(st, w) ==
    {[w EXCEPT !.prevIndex = PushHistory(@, c),
               !.currentPoint = MoveToward(@, st.vertices[c + 1], st.settings.jumpDistance),
               !.walked = @ + 1]
     : c \in CandidatesVite(st, w.prevIndex)}

updateCurrentPointVite(m) == {WithWalk(m, w) : w \in WalkStepVite(m.st, Walk(m))}

RECURSIVE WalkStepsVite(_, _, _)
WalkStepsVite(st, W, n) ==
    IF n = 0 THEN W ELSE WalkStepsVite(st, UNION {WalkStepVite(st, w) : w \in W}, n - 1)

burnInVite(m, P) ==
    {WithWalk(m, w) :
        w \in WalkStepsVite(m.st, {[Walk(m) EXCEPT !.currentPoint = p] : p \in P},
                            DEFAULT_BURN_IN_COUNT)}

\* lines 338-381: as preDraw, without a restriction table
preDrawVite(m) ==
    LET s    == m.st.settings
        main == MainVertices(s.sides, m.st.radius, m.st.center)
        m1   == [m EXCEPT !.st.vertices = Vertices(s, m.st.radius, m.st.center),
                          !.st.mainVertices = main,
                          !.st.cosAngles = [i \in 1..s.sides |-> -SinTab(s.sides, i - 1)],
                          !.st.sinAngles = [i \in 1..s.sides |-> CosTab(s.sides, i - 1)]]
    IN  burnInVite(m1, getRandomPointInShape(m1.st))

\* lines 306-324: erase() comes before preDraw()
setupVite(m, newSettings) == preDrawVite(erase(updateColors(Resized(m, newSettings))))

\* `v | 0` of a coordinate, in pixels
TruncPx(u) == TruncDiv(u, Scale)

\* lines 647-670: the index, or no cell when the truncated point is off the canvas
CellIndexVite(st, p) ==
    LET px == TruncPx(p.x)
        py == TruncPx(p.y)
        canvasSize == st.settings.canvasSize
    IN  IF px >= 0 /\ px < canvasSize /\ py >= 0 /\ py < canvasSize
        THEN py * canvasSize + px ELSE NoCell

PlotIndicesVite(st) ==
    LET p == st.currentPoint
        c == st.center
        q == [x |-> 2 * c.x - p.x, y |-> p.y]
    IN  IF st.settings.symmetrical
        THEN [k \in 1..(2 * st.settings.sides) |->
                LET j == (k + 1) \div 2
                IN  CellIndexVite(st, rotatePoint(c, IF k % 2 = 1 THEN p ELSE q,
                                                  st.cosAngles[j], st.sinAngles[j]))]
        ELSE <<CellIndexVite(st, p)>>

PlotVite(m) == [m EXCEPT !.st = WriteCells(m.st, PlotIndicesVite(m.st))]

RECURSIVE PlotStepsVite(_, _)
\* lines 616-672: n passes of the batch loop
PlotStepsVite(S, n) ==
    IF n = 0 THEN S
    ELSE PlotStepsVite(UNION {{PlotVite(x) : x \in updateCurrentPointVite(m)} : m \in S}, n - 1)

\* lines 578-599: as checkStability, the iteration counter left alone
checkStabilityVite(m) ==
    [checkStability(m) EXCEPT !.st.iterations = m.st.iterations]

ScheduleVite(m) ==
    LET id == FreshId(m)
    IN  [m EXCEPT !.st.loopId = id, !.pending = @ \cup {id}]

stopVite(m) ==
    IF ~m.st.isRunning THEN m
    ELSE renderFrame([m EXCEPT !.st.runTime = 0,
                               !.st.isRunning = FALSE,
                               !.pending = IF m.st.loopId # 0 THEN @ \ {m.st.loopId} ELSE @,
                               !.st.loopId = 0])

\* lines 673-697
AfterBatchVite(m, due) ==
    LET ppb    == IF m.st.settings.symmetrical THEN m.st.settings.sides * 2 ELSE 1
        m1     == [m EXCEPT !.st.iterations = @ + DEFAULT_BATCH_SIZE * ppb]
        stable == Converged(m1.st)
        m2     == checkStabilityVite(m1)
        check  == m2.st.settings.autoStop /\ m2.st.iterations >= DEFAULT_STABILITY_INTERVAL
        m3     == IF check THEN [m2 EXCEPT !.st.iterations = 0] ELSE m2
    IN  IF check /\ stable
        THEN stopVite(Post(m3, [type |-> "finish", timed |-> m3.st.runTime # 0]))
        ELSE ScheduleVite(IF due /\ m3.st.settings.liveRendering THEN renderFrame(m3) ELSE m3)

drawLoopVite(m, due) ==
    IF ~m.st.isRunning THEN {m}
    ELSE {AfterBatchVite(x, due) : x \in PlotStepsVite({m}, DEFAULT_BATCH_SIZE)}

\* lines 704-710: play runs the first batch itself
playVite(m, due) ==
    IF m.st.isRunning THEN {m}
    ELSE drawLoopVite([m EXCEPT !.st.isRunning = TRUE, !.st.runTime = 1], due)

----------------------------------------------------------------------------
(* Settings the host may send *)

White == <<15, 15, 15>>
Black == <<0, 0, 0>>
Teal  == <<1, 0, 8, 0, 8, 0>>

\* a triangle on a 4 x 4 canvas, one pixel of padding, full jumps (jumpDistance is in halves)
BaseSettings ==
    [canvasSize |-> 4, sides |-> 3, jumpDistance |-> 2, padding |-> 1,
     midpointVertex |-> FALSE, centerVertex |-> FALSE, symmetrical |-> FALSE,
     autoStop |-> FALSE, liveRendering |-> FALSE, solidBg |-> FALSE,
     restriction |-> "none", gammaExponent |-> 1, stabilityNewPixelsThreshold |-> 0,
     fgColor |-> White, bgColor |-> Black, drawCircle |-> FALSE, drawPolygon |-> FALSE]

\* state.settings before the init message: {}
NoSettings == [none |-> TRUE]

----------------------------------------------------------------------------
(* Message handler, worker_v3.js:440-490.  D is the domain of the host's   *)
(* inputs: D.init the settings objects of init / reset, D.upd the          *)
(* <<key, value>> pairs of updateSetting.                                  *)

Ready == ctx /\ state.settings # NoSettings

\* points one step of the walk plots
PointsPerStep(st) == IF st.settings.symmetrical THEN st.settings.sides * 2 ELSE 1

\* no quantum starts once the model's counters are exhausted
WithinBounds ==
    /\ Ready
    /\ SumSeq(state.imageMatrix) < MaxHits * PointsPerStep(state)
    /\ state.iterations < MaxHits * DEFAULT_STABILITY_INTERVAL * PointsPerStep(state)

InitCanvasMsg ==
    /\ ~ctx
    /\ ctx' = TRUE
    /\ posted' = <<>>
    /\ walked' = 0
    /\ UNCHANGED <<state, pending, blobs, halted, quiet>>
    /\ handled' = "initCanvas"

InitMsg(D) ==
    /\ ctx /\ state.settings = NoSettings
    /\ \E newSettings \in D.init : \E m \in setup(Machine, newSettings) :
          Commit(renderFrame(m))
    /\ handled' = "init"
    /\ UNCHANGED halted

ResetMsg(D) ==
    /\ Ready
    /\ \E newSettings \in D.init : \E m \in setup(stop(Machine), newSettings) :
          Commit(renderFrame(m))
    /\ handled' = "reset"
    /\ UNCHANGED halted

PlayMsg == Ready /\ Commit(play(Machine)) /\ halted' = FALSE /\ handled' = "play"

StopMsg == Ready /\ Commit(stop(Machine)) /\ halted' = TRUE /\ handled' = "stop"

updateSetting(m, key, value) ==
    LET m1 == [m EXCEPT !.st.settings[key] = value]
        m2 == IF key \in {"bgColor", "fgColor", "solidBg"}
              THEN LET c == updateColors(m1)
                   IN  [c EXCEPT !.st.pixelData =
                           [i \in DOMAIN @ |-> IF c.st.settings.solidBg THEN bg32(c.st) ELSE Pixel0]]
              ELSE m1
        needsRender == \/ key \in {"bgColor", "fgColor", "solidBg"}
                       \/ key \in {"gammaExponent", "drawCircle", "drawPolygon"}
                       \/ (key = "liveRendering" /\ value = TRUE)
    IN  IF needsRender /\ (~m2.st.isRunning \/ m2.st.settings.liveRendering)
        THEN renderFrame(m2) ELSE m2

UpdateSettingMsg(D) ==
    /\ Ready
    /\ \E kv \in D.upd : Commit(updateSetting(Machine, kv[1], kv[2]))
    /\ handled' = "updateSetting"
    /\ UNCHANGED halted

getBlob(m) ==
    LET r == prepareCanvasForOutput(m)
    IN  IF r.threw THEN r ELSE [r EXCEPT !.blobs = Append(@, [wasRunning |-> FALSE])]

GetBlobMsg ==
    /\ Ready
    /\ Len(blobs) < MaxBlobs
    /\ Commit(getBlob(Machine))
    /\ handled' = "getBlob"
    /\ UNCHANGED halted

\* the .then callback of convertToBlob
BlobReady ==
    /\ blobs # <<>>
    /\ Commit(Post([Machine EXCEPT !.blobs = Tail(@)], [type |-> "blobReady"]))
    /\ handled' = "blobReady"
    /\ UNCHANGED halted

\* the host scheduler runs a pending animation-frame callback
FrameCallback ==
    /\ WithinBounds
    /\ \E id \in pending, n \in 1..MaxBatchesPerQuantum, due \in BOOLEAN :
          \E m \in drawLoop([Machine EXCEPT !.pending = @ \ {id}], n, due) : Commit(m)
    /\ handled' = "frame"
    /\ UNCHANGED halted

State0 ==
    [settings |-> NoSettings, vertices |-> <<>>, mainVertices |-> <<>>,
     currentPoint |-> [x |-> 0, y |-> 0], center |-> [x |-> 0, y |-> 0], radius |-> 0,
     imageMatrix |-> <<>>, allowedMoves |-> <<>>, pixelData |-> <<>>, maxValue |-> 1,
     prevIndex |-> <<>>, bgColor |-> [r |-> 0, g |-> 0, b |-> 0],
     fgColor |-> [r |-> 255, g |-> 255, b |-> 255], cosAngles |-> <<>>, sinAngles |-> <<>>,
     iterations |-> 0, stabilityCounter |-> 0, newPixelsSinceLastCheck |-> 0,
     newPixelsEma |-> 0, filledPixels |-> 0, runTime |-> 0, isRunning |-> FALSE,
     animationFrameId |-> 0, loopId |-> 0]

Init ==
    /\ state = State0
    /\ ctx = FALSE
    /\ pending = {}
    /\ blobs = <<>>
    /\ posted = <<>>
    /\ walked = 0
    /\ halted = FALSE
    /\ handled = "none"
    /\ quiet = 0

NextOver(D) ==
    \/ InitCanvasMsg
    \/ InitMsg(D)
    \/ ResetMsg(D)
    \/ PlayMsg
    \/ StopMsg
    \/ UpdateSettingMsg(D)
    \/ GetBlobMsg
    \/ BlobReady
    \/ FrameCallback

\* the scheduler and the accumulator of worker_v3.js
DomainV3 ==
    [init |-> {[BaseSettings EXCEPT !.centerVertex = TRUE, !.autoStop = TRUE,
                                    !.liveRendering = TRUE],
               [BaseSettings EXCEPT !.solidBg = TRUE]},
     upd  |-> {<<"fgColor", Teal>>, <<"drawCircle", FALSE>>}]

Next == NextOver(DomainV3)

Spec == Init /\ [][Next]_vars

\* the restriction rules of worker_v3.js: a square, the restriction changed live
DomainWalk ==
    [init |-> {[BaseSettings EXCEPT !.sides = 4]},
     upd  |-> {<<"restriction", "no-repeat">>, <<"restriction", "no-return">>,
               <<"restriction", "no-neighbor">>}]

NextWalk == NextOver(DomainWalk)

SpecWalk == Init /\ [][NextWalk]_vars

\* the accumulator at the canvas edge: a square with no padding, whose right
\* and bottom vertices lie on the border of the canvas
DomainEdge ==
    [init |-> {[BaseSettings EXCEPT !.sides = 4, !.padding = 0]},
     upd  |-> {<<"drawPolygon", FALSE>>}]

NextEdge == NextOver(DomainEdge)

SpecEdge == Init /\ [][NextEdge]_vars

\* the stability detector of worker_v3.js: a square with midpoints, every
\* step plotted with its rotations and reflections, autoStop enabled
\* a segment instead of a polygon at reset; a padding of half the canvas
\* (radius 0) and a smaller canvas by updateSetting
DomainConfig ==
    [init |-> {BaseSettings, [BaseSettings EXCEPT !.sides = 2]},
     upd  |-> {<<"padding", 2>>, <<"canvasSize", 3>>}]

NextConfig == NextOver(DomainConfig)

SpecConfig == Init /\ [][NextConfig]_vars

DomainQuiet ==
    [init |-> {[BaseSettings EXCEPT !.sides = 4, !.midpointVertex = TRUE, !.canvasSize = 5,
                                    !.symmetrical = TRUE, !.autoStop = TRUE]},
     upd  |-> {<<"drawCircle", FALSE>>}]

NextQuiet == NextOver(DomainQuiet)

SpecQuiet == Init /\ [][NextQuiet]_vars

\* a square with its centre as fifth vertex, every point plotted with its
\* symmetric copies; centre and vertices lie on pixel centres
DomainSym ==
    [init |-> {[BaseSettings EXCEPT !.sides = 4, !.centerVertex = TRUE, !.symmetrical = TRUE]},
     upd  |-> {<<"drawCircle", FALSE>>}]

NextSym == NextOver(DomainSym)

SpecSym == Init /\ [][NextSym]_vars

\* symmetric plotting on a triangle; sides and centerVertex changed by
\* updateSetting
DomainGeom ==
    [init |-> {[BaseSettings EXCEPT !.symmetrical = TRUE]},
     upd  |-> {<<"sides", 4>>, <<"centerVertex", TRUE>>}]

NextGeom == NextOver(DomainGeom)

SpecGeom == Init /\ [][NextGeom]_vars

\* a run with autoStop on and liveRendering off; a colour changed and
\* liveRendering switched on by updateSetting
DomainLive ==
    [init |-> {[BaseSettings EXCEPT !.autoStop = TRUE]},
     upd  |-> {<<"fgColor", Teal>>, <<"liveRendering", TRUE>>}]

NextLive == NextOver(DomainLive)

SpecLive == Init /\ [][NextLive]_vars

\* the two rules that look at a repeat, switched on live over a square
DomainRepeat ==
    [init |-> {[BaseSettings EXCEPT !.sides = 4]},
     upd  |-> {<<"restriction", "no-double-repeat">>,
               <<"restriction", "no-neighbor-after-repeat">>}]

NextRepeat == NextOver(DomainRepeat)

SpecRepeat == Init /\ [][NextRepeat]_vars

\* A run left alone: init, one play on the empty matrix, then only the
\* animation-frame callbacks, with no stop, reset or other message.  The
\* callbacks are those of FrameCallback, with a hit budget large enough for
\* the detector to converge.
PlayFreshMsg ==
    /\ Ready
    /\ SumSeq(state.imageMatrix) = 0
    /\ Commit(play(Machine))
    /\ halted' = FALSE
    /\ handled' = "play"

FrameCallbackFair ==
    /\ Ready
    /\ SumSeq(state.imageMatrix) < MaxHitsFair * PointsPerStep(state)
    /\ \E id \in pending, n \in 1..MaxBatchesPerQuantum, due \in BOOLEAN :
          \E m \in drawLoop([Machine EXCEPT !.pending = @ \ {id}], n, due) : Commit(m)
    /\ handled' = "frame"
    /\ UNCHANGED halted

\* a triangle plotted with its symmetric copies, autoStop on, the threshold
\* set to 0.5
DomainFair ==
    [init |-> {[BaseSettings EXCEPT !.symmetrical = TRUE, !.autoStop = TRUE,
                                    !.stabilityNewPixelsThreshold = 5]},
     upd  |-> {}]

NextFair == InitCanvasMsg \/ InitMsg(DomainFair) \/ PlayFreshMsg \/ FrameCallbackFair

\* when FrameCallbackFair can take a step: a callback is pending and the hit
\* budget is not used up (drawLoop has an outcome in every such state)
FrameEnabled ==
    /\ Ready
    /\ pending # {}
    /\ SumSeq(state.imageMatrix) < MaxHitsFair * PointsPerStep(state)

\* the host runs a pending animation-frame callback sooner or later: weak
\* fairness of FrameCallbackFair, its enabling condition written out
SpecFair ==
    /\ Init /\ [][NextFair]_vars
    /\ ([]<>~FrameEnabled \/ []<><<FrameCallbackFair>>_vars)

----------------------------------------------------------------------------
(* Message handler of vite.config.js, lines 729-822 *)

InitMsgVite(D) ==
    /\ ctx /\ state.settings = NoSettings
    /\ \E newSettings \in D.init : \E m \in setupVite(Machine, newSettings) :
          Commit(renderFrame(m))
    /\ handled' = "init"
    /\ UNCHANGED halted

ResetMsgVite(D) ==
    /\ Ready
    /\ \E newSettings \in D.init : \E m \in setupVite(stopVite(Machine), newSettings) :
          Commit(renderFrame(m))
    /\ handled' = "reset"
    /\ UNCHANGED halted

PlayMsgVite ==
    /\ Ready
    /\ state.isRunning \/ (WithinBounds /\ Cardinality(pending) < MaxPending)
    /\ \E due \in BOOLEAN : \E m \in playVite(Machine, due) : Commit(m)
    /\ halted' = FALSE
    /\ handled' = "play"

StopMsgVite == Ready /\ Commit(stopVite(Machine)) /\ halted' = TRUE /\ handled' = "stop"

updateSettingVite(m, key, value) ==
    LET m1 == [m EXCEPT !.st.settings[key] = value]
        geometryKeys == {"sides", "padding", "midpointVertex", "centerVertex"}
        colorKeys    == {"bgColor", "fgColor", "solidBg", "gammaExponent"}
        cosmeticKeys == {"drawCircle", "drawPolygon"}
        m2 == IF key \in colorKeys
              THEN LET c == updateColors(m1)
                   IN  [c EXCEPT !.st.pixelData =
                           [i \in DOMAIN @ |-> IF c.st.settings.solidBg THEN bg32(c.st) ELSE Pixel0]]
              ELSE m1
        needsRender == \/ key \in colorKeys
                       \/ key \in cosmeticKeys
                       \/ (key = "liveRendering" /\ value = TRUE)
    IN  IF key \in geometryKeys
        THEN {renderFrame(x) : x \in setupVite(stopVite(m1), m1.st.settings)}
        ELSE {IF needsRender /\ (~m2.st.isRunning \/ m2.st.settings.liveRendering)
              THEN renderFrame(m2) ELSE m2}

UpdateSettingMsgVite(D) ==
    /\ Ready
    /\ \E kv \in D.upd : \E m \in updateSettingVite(Machine, kv[1], kv[2]) : Commit(m)
    /\ handled' = "updateSetting"
    /\ UNCHANGED halted

\* lines 800-820: the loop is paused until the blob is ready
getBlobVite(m) ==
    LET wasRunning == m.st.isRunning
        m1 == IF wasRunning
              THEN [m EXCEPT !.st.isRunning = FALSE,
                             !.pending = @ \ {m.st.loopId},
                             !.st.loopId = 0]
              ELSE m
        r  == prepareCanvasForOutput(m1)
    IN  IF r.threw THEN r ELSE [r EXCEPT !.blobs = Append(@, [wasRunning |-> wasRunning])]

GetBlobMsgVite ==
    /\ Ready
    /\ Len(blobs) < MaxBlobs
    /\ Commit(getBlobVite(Machine))
    /\ handled' = "getBlob"
    /\ UNCHANGED halted

\* lines 810-818: the .then callback
blobReadyVite(m) ==
    LET m1 == Post([m EXCEPT !.blobs = Tail(@)], [type |-> "blobReady"])
    IN  IF Head(m.blobs).wasRunning
        THEN ScheduleVite([m1 EXCEPT !.st.isRunning = TRUE])
        ELSE m1

BlobReadyVite ==
    /\ blobs # <<>>
    /\ Head(blobs).wasRunning => Cardinality(pending) < MaxPending
    /\ Commit(blobReadyVite(Machine))
    /\ handled' = "blobReady"
    /\ UNCHANGED halted

\* the host scheduler runs a pending timer
TimerCallback ==
    /\ \E id \in pending :
          /\ ~state.isRunning \/ WithinBounds
          /\ \E due \in BOOLEAN :
                \E m \in drawLoopVite([Machine EXCEPT !.pending = @ \ {id}], due) : Commit(m)
    /\ handled' = "timer"
    /\ UNCHANGED halted

NextViteOver(D) ==
    \/ InitCanvasMsg
    \/ InitMsgVite(D)
    \/ ResetMsgVite(D)
    \/ PlayMsgVite
    \/ StopMsgVite
    \/ UpdateSettingMsgVite(D)
    \/ GetBlobMsgVite
    \/ BlobReadyVite
    \/ TimerCallback

DomainVite ==
    [init |-> {BaseSettings},
     upd  |-> {<<"drawCircle", TRUE>>}]

NextVite == NextViteOver(DomainVite)

SpecVite == Init /\ [][NextVite]_vars

\* the select-and-retry walk of vite.config.js under the same inputs
NextViteWalk == NextViteOver(DomainWalk)

SpecViteWalk == Init /\ [][NextViteWalk]_vars

----------------------------------------------------------------------------
(* Restriction rules *)

\* the positions of prevIndex the last handler filled
Chosen == {j \in 1..Len(state.prevIndex) : j > Len(state.prevIndex) - walked}

ringSize == IF state.settings.midpointVertex THEN state.settings.sides * 2
            ELSE state.settings.sides

\* C2: under 'no-repeat' no index chosen by a step equals the entry of the
\* Move History just before it, in every run (init, reset, play, stop,
\* updateSetting, burn-in and batches).
C2_NoRepeat ==
    (Ready /\ state.settings.restriction = "no-repeat") =>
        \A j \in Chosen : j >= 2 => state.prevIndex[j] # state.prevIndex[j - 1]

\* C3: under 'no-return' no index chosen by a step equals the entry of the
\* Move History two places before it.
C3_NoReturn ==
    (Ready /\ state.settings.restriction = "no-return") =>
        \A j \in Chosen : j >= 3 => state.prevIndex[j] # state.prevIndex[j - 2]

\* C4: under 'no-neighbor' an index chosen by a step and the entry just before
\* it, both on the ring (below ringSize), never differ by 1 or by ringSize - 1;
\* the centroid index is free.
C4_NoNeighbor ==
    (Ready /\ state.settings.restriction = "no-neighbor") =>
        \A j \in Chosen :
            (j >= 2 /\ state.prevIndex[j] < ringSize /\ state.prevIndex[j - 1] < ringSize)
            => Abs(state.prevIndex[j] - state.prevIndex[j - 1]) \notin {1, ringSize - 1}

----------------------------------------------------------------------------
(* Accumulator properties *)

\* the rounded pixel of p lies outside [0, canvasSize) in x or in y
OffCanvas(st, p) ==
    \/ RoundPx(p.x) < 0 \/ RoundPx(p.x) >= st.settings.canvasSize
    \/ RoundPx(p.y) < 0 \/ RoundPx(p.y) >= st.settings.canvasSize

\* C5: a step that plots one point whose rounded x or y is off the canvas
\* changes no cell of the matrix, nor the new-pixel counter, nor maxValue.
C5_OffCanvasDropped ==
    [][(walked' = 1 /\ ~state'.settings.symmetrical /\ OffCanvas(state', state'.currentPoint))
        => /\ state'.imageMatrix = state.imageMatrix
           /\ state'.newPixelsSinceLastCheck = state.newPixelsSinceLastCheck
           /\ state'.maxValue = state.maxValue]_vars

\* C8: between two erases (which only init and reset perform) no cell of the
\* matrix decreases: not by a batch, a stability check, a render, stop, play,
\* a snapshot or a colour / cosmetic updateSetting.
C8_Monotone ==
    [][handled' \notin {"init", "reset"} =>
          \A i \in DOMAIN state.imageMatrix :
              i \in DOMAIN state'.imageMatrix /\ state'.imageMatrix[i] >= state.imageMatrix[i]]_vars

\* an updateSetting was handled over a matrix with accumulated hits
C8_Witness ==
    /\ handled = "updateSetting"
    /\ \E i \in DOMAIN state.imageMatrix : state.imageMatrix[i] >= 2

----------------------------------------------------------------------------
(* Setup and reset properties *)

AllZero(matrix) == \A i \in DOMAIN matrix : matrix[i] = 0

\* EMA, quiet counter, filledPixels, interval new-pixel counter, iterations
StabilityState(st) ==
    <<st.newPixelsEma, st.stabilityCounter, st.filledPixels,
      st.newPixelsSinceLastCheck, st.iterations>>

\* C6: right after init (setup, burn-in included) every cell of the matrix is 0
\* and maxValue is 1.
C6_InitClean ==
    handled = "init" => (AllZero(state.imageMatrix) /\ state.maxValue = 1)

\* init was handled: the matrix is allocated and the point stands on a vertex
C6_Witness ==
    /\ handled = "init"
    /\ Len(state.imageMatrix) = state.settings.canvasSize * state.settings.canvasSize
    /\ \E k \in DOMAIN state.vertices : state.vertices[k] = state.currentPoint

\* C7: right after reset the matrix is all-zero, maxValue is 1, the Move
\* History is empty or holds only indices of the new vertex list, and the
\* Stability State is all zero; stop, play and the snapshot never zero a
\* non-zero Stability State.
C7_ResetClean ==
    [][/\ handled' = "reset" =>
            /\ AllZero(state'.imageMatrix)
            /\ state'.maxValue = 1
            /\ \A j \in DOMAIN state'.prevIndex : state'.prevIndex[j] < Len(state'.vertices)
            /\ StabilityState(state') = <<0, 0, 0, 0, 0>>
       /\ handled' \in {"stop", "play", "getBlob"} =>
            (StabilityState(state') = <<0, 0, 0, 0, 0>>
                => StabilityState(state) = <<0, 0, 0, 0, 0>>)]_vars

----------------------------------------------------------------------------
(* Scheduler properties *)

\* C9: stop while running cancels the pending frame callback and posts exactly
\* one render, with every hit cell of the pixel buffer normalized from the
\* matrix as it stands; stop while idle posts nothing and changes nothing.
C9_Stop ==
    [][handled' = "stop" =>
          IF state.isRunning
          THEN /\ ~state'.isRunning
               /\ state'.animationFrameId = 0
               /\ pending' = {}
               /\ posted' = <<[type |-> "render"]>>
               /\ state'.imageMatrix = state.imageMatrix
               /\ \A i \in DOMAIN state.imageMatrix :
                     state'.pixelData[i] =
                        IF state.imageMatrix[i] > 0
                        THEN calculatePixelValue(state,
                                normalizeValue(state, state.imageMatrix[i],
                                               Ln1000(1 + state.maxValue)))
                        ELSE state.pixelData[i]
          ELSE /\ state' = state
               /\ posted' = <<>>
               /\ UNCHANGED <<ctx, pending, blobs>>]_vars

\* stop was handled while running, over cells with different hit counts
C9_Witness ==
    /\ handled = "stop"
    /\ posted = <<[type |-> "render"]>>
    /\ \E i, j \in DOMAIN state.imageMatrix :
          state.imageMatrix[i] = 1 /\ state.imageMatrix[j] = 2

Finishes == {k \in DOMAIN posted : posted[k].type = "finish"}

\* C10: a handler posts at most one finish message, and only a batch callback
\* does, with autoStop enabled and after the detector signalled convergence
\* (EMA under the threshold for STABILITY_WINDOW checks in a row); the
\* scheduler is idle after it, so the run posts no other.
C10_Finish ==
    Finishes # {} =>
        /\ Cardinality(Finishes) = 1
        /\ handled = "frame"
        /\ state.settings.autoStop
        /\ state.newPixelsEma < Threshold(state)
        /\ state.stabilityCounter >= STABILITY_WINDOW
        /\ \E k \in DOMAIN posted : posted[k].type = "stabilityCheck" /\ k < Max(Finishes)
        /\ ~state.isRunning /\ state.animationFrameId = 0 /\ pending = {}

\* a finish message was posted
C10_Witness == Finishes # {}

\* a step in which a batch of the walk was plotted
BatchRan ==
    \/ state'.iterations > state.iterations
    \/ \E i \in DOMAIN state.imageMatrix \cap DOMAIN state'.imageMatrix :
          state'.imageMatrix[i] > state.imageMatrix[i]

----------------------------------------------------------------------------
(* Stability detector properties *)

\* what one handler posted of the given type
PostedOf(msgs, type) == {k \in DOMAIN msgs : msgs[k].type = type}

\* C11: a stabilityCheck message is posted only by a handler that ran batches,
\* only with autoStop enabled, and a handler that ran exactly one batch posts
\* one if that batch brought the plotted-point counter to the check interval
\* and none otherwise.
C11_CheckPerInterval ==
    [][/\ PostedOf(posted', "stabilityCheck") # {} =>
            (handled' \in {"frame", "timer", "play"} /\ state.settings.autoStop)
       /\ (handled' \in {"frame", "timer", "play"} /\ walked' = DEFAULT_BATCH_SIZE
                /\ state'.settings = state.settings) =>
            Cardinality(PostedOf(posted', "stabilityCheck")) =
                IF /\ state.settings.autoStop
                   /\ state.iterations + DEFAULT_BATCH_SIZE * PointsPerStep(state)
                          >= DEFAULT_STABILITY_INTERVAL
                THEN 1 ELSE 0]_vars

\* C12 as stated: with autoStop and the default threshold of 1.0, the check
\* that completes STABILITY_WINDOW intervals in a row without a new pixel (or
\* any later one of the row) posts finish.
C12_FinishWithinWindow ==
    [][(/\ Ready
        /\ state.settings.autoStop
        /\ state.settings.stabilityNewPixelsThreshold = 0
        /\ quiet' > quiet
        /\ quiet' >= STABILITY_WINDOW) => PostedOf(posted', "finish") # {}]_vars

\* C12 amended: the detector counts checks whose EMA is under the threshold,
\* not intervals without new pixels: the batch callback whose check brings
\* that count to STABILITY_WINDOW posts finish and leaves the scheduler idle.
C12_FinishAfterQuietEma ==
    (/\ handled = "frame"
     /\ state.settings.autoStop
     /\ PostedOf(posted, "stabilityCheck") # {}
     /\ state.stabilityCounter >= STABILITY_WINDOW)
        => (PostedOf(posted, "finish") # {} /\ ~state.isRunning)

\* a finish was posted after at least one interval without a new pixel, every
\* step plotted with its symmetric copies
C12_Witness ==
    /\ PostedOf(posted, "finish") # {}
    /\ state.settings.symmetrical
    /\ quiet >= 1

----------------------------------------------------------------------------
(* Settings changes *)

\* C13: after an updateSetting message, the table of allowed moves the next
\* walk step reads is the one buildRestrictions computes from the current
\* settings and the current vertices.
C13_AllowedMovesCurrent ==
    handled = "updateSetting" =>
        state.allowedMoves = buildRestrictions(Machine).st.allowedMoves

\* the setting keys whose value the step changed
ChangedKeys == {k \in DOMAIN state.settings : state'.settings[k] # state.settings[k]}

\* C14: an updateSetting message that changes sides, padding, midpointVertex,
\* centerVertex or restriction rebuilds the geometry (run stopped, matrix and
\* stability state cleared); one that changes fgColor, bgColor, solidBg or
\* gammaExponent leaves the matrix, maxValue and the stability state alone;
\* drawCircle and drawPolygon leave the walk state and the geometry alone too.
C14_KeyClasses ==
    [][(Ready /\ handled' = "updateSetting") =>
        /\ ChangedKeys \cap {"sides", "padding", "midpointVertex", "centerVertex",
                             "restriction"} # {} =>
                /\ ~state'.isRunning
                /\ pending' = {}
                /\ AllZero(state'.imageMatrix)
                /\ state'.maxValue = 1
                /\ StabilityState(state') = <<0, 0, 0, 0, 0>>
        /\ (ChangedKeys # {} /\ ChangedKeys \subseteq
                {"fgColor", "bgColor", "solidBg", "gammaExponent"}) =>
                /\ state'.imageMatrix = state.imageMatrix
                /\ state'.maxValue = state.maxValue
                /\ StabilityState(state') = StabilityState(state)
        /\ ChangedKeys \subseteq {"drawCircle", "drawPolygon"} =>
                /\ state'.imageMatrix = state.imageMatrix
                /\ state'.maxValue = state.maxValue
                /\ StabilityState(state') = StabilityState(state)
                /\ state'.vertices = state.vertices
                /\ state'.allowedMoves = state.allowedMoves
                /\ state'.currentPoint = state.currentPoint
                /\ state'.prevIndex = state.prevIndex]_vars

\* C15: the settings the worker holds always have at least 3 sides and a
\* positive radius canvasSize / 2 - padding: a change by init, reset or
\* updateSetting that would break this is rejected and leaves the state as
\* it was.
C15_ConfigValid ==
    Ready =>
        /\ state.settings.sides >= 3
        /\ state.settings.canvasSize > 2 * state.settings.padding

\* C16: once init was handled, the matrix and the pixel buffer each have
\* exactly canvasSize * canvasSize cells, after every message, an
\* updateSetting of canvasSize included.
C16_BufferSizes ==
    Ready =>
        /\ Len(state.imageMatrix) = state.settings.canvasSize * state.settings.canvasSize
        /\ Len(state.pixelData) = state.settings.canvasSize * state.settings.canvasSize

----------------------------------------------------------------------------
(* Rendering properties *)

\* the pixel of an empty cell: opaque bgColor with a solid background, 0 without
FlatBackground ==
    LET bg == colorToRGB(state.settings.bgColor)
    IN  IF state.settings.solidBg THEN <<255, bg.b, bg.g, bg.r>> ELSE <<0, 0, 0, 0>>

\* init or reset ran to its end: setup finished with erase() and the handler
\* went on with renderFrame(), nothing was thrown on the way
ErasedAndRendered ==
    /\ handled \in {"init", "reset"}
    /\ PostedOf(posted, "error") = {}
    /\ posted # <<>>
    /\ Last(posted).type = "render"

\* C17: right after erase() followed by a render, every cell of the pixel
\* buffer is the flat background: opaque bgColor with solidBg, 0 without.
C17_EraseRendersFlat ==
    ErasedAndRendered =>
        \A i \in DOMAIN state.pixelData : state.pixelData[i] = FlatBackground

\* a reset erased and rendered a canvas with a solid background
C17_Witness ==
    /\ ErasedAndRendered
    /\ handled = "reset"
    /\ state.settings.solidBg
    /\ state.pixelData # <<>>
    /\ state.pixelData[1] = <<255, 0, 0, 0>>

\* C18: updatePixelDataFromMatrix applied twice in a row gives the pixel
\* buffer it gives applied once.
C18_RenderIdempotent ==
    Ready =>
        updatePixelDataFromMatrix(updatePixelDataFromMatrix(Machine)).st.pixelData
            = updatePixelDataFromMatrix(Machine).st.pixelData

\* the buffer is stale: plotted cells are not yet in it, so the function has
\* pixels to write
C18_Witness ==
    /\ Ready
    /\ \E i \in DOMAIN state.imageMatrix : state.imageMatrix[i] > 1
    /\ updatePixelDataFromMatrix(Machine).st.pixelData # state.pixelData

\* C19: a getBlob message (a render snapshot) is handled whether the run is
\* idle or running, and leaves isRunning, the scheduled continuation, the
\* matrix, maxValue, the move history, the current point and the stability
\* state as they were.
C19_SnapshotFrame ==
    [][(Ready /\ handled' = "getBlob") =>
        /\ state'.isRunning = state.isRunning
        /\ pending' = pending
        /\ state'.imageMatrix = state.imageMatrix
        /\ state'.maxValue = state.maxValue
        /\ state'.prevIndex = state.prevIndex
        /\ state'.currentPoint = state.currentPoint
        /\ StabilityState(state') = StabilityState(state)]_vars

----------------------------------------------------------------------------
(* Resuming *)

\* C20: stop and play keep the matrix, maxValue, the move history, the
\* current point and the stability state, so a run played after a stop goes on
\* from where it was stopped; play while the run is going changes nothing.
C20_PlayResumes ==
    [][(Ready /\ handled' \in {"stop", "play"}) =>
        /\ state'.imageMatrix = state.imageMatrix
        /\ state'.maxValue = state.maxValue
        /\ state'.prevIndex = state.prevIndex
        /\ state'.currentPoint = state.currentPoint
        /\ StabilityState(state') = StabilityState(state)
        /\ (handled' = "play" /\ ~state.isRunning) =>
                (state'.isRunning /\ pending' # {})
        /\ (handled' = "play" /\ state.isRunning) =>
                (state' = state /\ pending' = pending)]_vars

\* play was handled with points already accumulated: the run goes on with them
C20_Witness ==
    /\ handled = "play"
    /\ state.isRunning
    /\ pending # {}
    /\ state.iterations > 0
    /\ \E i \in DOMAIN state.imageMatrix : state.imageMatrix[i] > 0

----------------------------------------------------------------------------
(* Symmetric plotting *)

\* the matrix cell of pixel (x, y)
CellAt(x, y) == state.imageMatrix[y * state.settings.canvasSize + x + 1]

C22_GeometryCurrent ==
    (handled = "frame" /\ walked > 0) =>
        /\ Len(state.cosAngles) = state.settings.sides
        /\ Len(state.sinAngles) = state.settings.sides
        /\ Len(state.vertices) =
               state.settings.sides * (IF state.settings.midpointVertex THEN 2 ELSE 1)
                   + (IF state.settings.centerVertex THEN 1 ELSE 0)

----------------------------------------------------------------------------
(* The two vertex selectors over every geometry and rule: preDraw has placed *)
(* the vertices (worker_v3.js:130-166), buildRestrictions builds the table,   *)
(* then either updateCurrentPoint extends the history.                        *)

Rules ==
    {"none", "no-repeat", "no-double-repeat", "no-return", "no-neighbor",
     "no-neighbor-after-repeat"}

RuleSettings ==
    {[BaseSettings EXCEPT !.sides = n, !.midpointVertex = mid, !.centerVertex = cen,
                          !.restriction = r]
        : n \in 3..5, mid \in BOOLEAN, cen \in BOOLEAN, r \in Rules}

\* the state at line 167, before buildRestrictions()
Placed(s) ==
    LET r == Resized([st |-> State0, ctx |-> TRUE, pending |-> {}, blobs |-> <<>>,
                      posted |-> <<>>, walked |-> 0, quiet |-> 0, threw |-> FALSE,
                      ret |-> FALSE], s).st
    IN  [r EXCEPT !.vertices = Vertices(s, r.radius, r.center),
                  !.mainVertices = MainVertices(s.sides, r.radius, r.center),
                  !.cosAngles = [i \in 1..s.sides |-> -SinTab(s.sides, i - 1)],
                  !.sinAngles = [i \in 1..s.sides |-> CosTab(s.sides, i - 1)],
                  !.currentPoint = r.center]

InitRules ==
    /\ \E s \in RuleSettings : state = Placed(s)
    /\ ctx = TRUE
    /\ pending = {}
    /\ blobs = <<>>
    /\ posted = <<>>
    /\ walked = 0
    /\ halted = FALSE
    /\ handled = "none"
    /\ quiet = 0

BuildRestrictionsStep ==
    /\ state.allowedMoves = <<>>
    /\ Commit(buildRestrictions(Machine))
    /\ handled' = "buildRestrictions"
    /\ UNCHANGED halted

TableStep ==
    /\ state.allowedMoves # <<>>
    /\ \E m \in updateCurrentPoint(Machine) : Commit(m)
    /\ handled' = "updateCurrentPoint"
    /\ UNCHANGED halted

RetryStep ==
    /\ state.allowedMoves # <<>>
    /\ \E m \in updateCurrentPointVite(Machine) : Commit(m)
    /\ handled' = "updateCurrentPoint"
    /\ UNCHANGED halted

NextRules == BuildRestrictionsStep \/ TableStep \/ RetryStep

SpecRules == InitRules /\ [][NextRules]_vars

\* One pass of the while loop of vite.config.js:428-464 whose drawn index is
\* rejected: isForbidden is set again and nothing else changes.
RejectedPass ==
    /\ state.allowedMoves # <<>>
    /\ \E c \in 0..(Len(state.vertices) - 1) :
          Forbidden(state.settings, state.prevIndex, c)
    /\ handled' = "retry"
    /\ posted' = <<>>
    /\ walked' = 0
    /\ UNCHANGED <<state, ctx, pending, blobs, halted, quiet>>

NextRetry == BuildRestrictionsStep \/ TableStep \/ RejectedPass \/ RetryStep

\* triangles and squares, with and without the centre, under every rule
InitRetry ==
    /\ \E s \in {r \in RuleSettings : r.sides <= 4 /\ ~r.midpointVertex} : state = Placed(s)
    /\ ctx = TRUE
    /\ pending = {}
    /\ blobs = <<>>
    /\ posted = <<>>
    /\ walked = 0
    /\ halted = FALSE
    /\ handled = "none"
    /\ quiet = 0

\* Math.random() is fair: a pass whose index is legal is not put off for ever
SpecRetry == InitRetry /\ [][NextRetry]_vars /\ WF_vars(RetryStep)

\* the histories a step can find: the last two entries are all the rules read
Histories ==
    LET I == 0..(Len(state.vertices) - 1)
    IN  {<<>>} \cup {<<a>> : a \in I} \cup {<<a, b>> : a, b \in I}

\* C36: over a geometry of at least 3 sides, under every rule and after every
\* history, the select-and-retry loop has an index it accepts and the table
\* step has a row with an entry; and a pass of the loop that rejected its index
\* is followed, under fair random choice, by a step that chose one.
C36_StepTerminates ==
    /\ [](state.allowedMoves # <<>> =>
            \A h \in Histories :
                /\ CandidatesVite(state, h) # {}
                /\ Candidates(state, h) # {})
    /\ (handled = "retry") ~> (handled = "updateCurrentPoint")

\* the loop rejected an index on a triangle under no-neighbor, where the last
\* index itself is the only one it accepts
C36_Witness ==
    /\ handled = "retry"
    /\ state.settings.restriction = "no-neighbor"
    /\ Len(state.vertices) = 3
    /\ Cardinality(CandidatesVite(state, state.prevIndex)) = 1

\* C23: in the table built for a geometry of at least 3 sides, under every
\* rule, no vertex has an empty set of allowed moves, and under the two
\* neighbour rules the centre vertex may move to every vertex.
C23_TableNonEmpty ==
    state.allowedMoves # <<>> =>
        /\ \A k \in DOMAIN state.allowedMoves : state.allowedMoves[k] # {}
        /\ (/\ state.settings.centerVertex
            /\ state.settings.restriction \in {"no-neighbor", "no-neighbor-after-repeat"})
              => Last(state.allowedMoves) = 0..(Len(state.vertices) - 1)

\* the table was built for a polygon with a centre vertex under no-neighbor:
\* the first vertex has lost its two neighbours, the centre has lost none
C23_Witness ==
    /\ handled = "buildRestrictions"
    /\ state.settings.centerVertex
    /\ state.settings.restriction = "no-neighbor"
    /\ Len(state.allowedMoves) = Len(state.vertices)
    /\ Cardinality(state.allowedMoves[1]) = Len(state.vertices) - 2

\* C29: for every rule, geometry and history, the indices the table lookup of
\* worker_v3.js may choose next are the indices the select-and-retry loop of
\* vite.config.js may choose next.
C29_SameCandidates ==
    state.allowedMoves # <<>> =>
        Candidates(state, state.prevIndex) = CandidatesVite(state, state.prevIndex)

\* a history of three choices ending in a repeat, under a rule that looks at
\* the last two entries
C29_Witness ==
    /\ state.allowedMoves # <<>>
    /\ Len(state.prevIndex) = HistoryCap
    /\ At(state.prevIndex, 1) = At(state.prevIndex, 2)
    /\ state.settings.restriction = "no-neighbor-after-repeat"
    /\ Candidates(state, state.prevIndex) # 0..(Len(state.vertices) - 1)

\* C24: the move history never holds more than its capacity; a step appends
\* the chosen index at the end and, when the history was full, drops exactly
\* its oldest entry, so the history is the last choices in order.
C24_HistoryBounded ==
    [][/\ Len(state'.prevIndex) <= HistoryCap
       /\ handled' = "updateCurrentPoint" =>
            \E c \in 0..(Len(state.vertices) - 1) :
                state'.prevIndex =
                    IF Len(state.prevIndex) < HistoryCap
                    THEN Append(state.prevIndex, c)
                    ELSE Append(Tail(state.prevIndex), c)]_vars

\* a full history whose entries differ: the order is visible
C24_Witness ==
    /\ handled = "updateCurrentPoint"
    /\ Len(state.prevIndex) = HistoryCap
    /\ state.prevIndex[1] # state.prevIndex[2]
    /\ state.prevIndex[2] # state.prevIndex[HistoryCap]

----------------------------------------------------------------------------
(* Running maximum and detector *)

\* the largest cell of a matrix, 0 for the empty one
MaxCell(matrix) == Max({0} \cup {matrix[i] : i \in DOMAIN matrix})

\* C25: in every state after init, maxValue is max(1, the largest cell of the
\* matrix); no step but init and reset (which erase) lowers it.
C25_MaxValue ==
    [][/\ (ctx' /\ state'.settings # NoSettings) =>
              state'.maxValue = Max({1, MaxCell(state'.imageMatrix)})
       /\ (Ready /\ handled' \notin {"init", "reset"}) =>
              state'.maxValue >= state.maxValue]_vars

IsCheck(msg) == msg.type = "stabilityCheck"

\* the EMA values the checks of one handler reported, in order
EmasOf(msgs) == [k \in DOMAIN SelectSeq(msgs, IsCheck) |-> SelectSeq(msgs, IsCheck)[k].newPixelsEma]

RECURSIVE CounterAfter(_, _, _)
\* the quiet counter after checks with these EMA values: one more for an EMA
\* under the threshold, 0 for any other
CounterAfter(counter, emas, threshold) ==
    IF emas = <<>> THEN counter
    ELSE CounterAfter(IF Head(emas) < threshold THEN counter + 1 ELSE 0, Tail(emas), threshold)

\* C26: every check with an EMA under the threshold adds one to the quiet
\* counter, every other check sets it to 0, nothing but a check or an erase
\* changes it, and convergence (the finish message) is signalled exactly by a
\* check that leaves the counter at the window or more: the EMA was under the
\* threshold at this check and at the checks before it, a window in all.
C26_QuietCounter ==
    [][Ready =>
        /\ handled' = "frame" =>
             LET emas == EmasOf(posted')
             IN  /\ state'.stabilityCounter =
                        CounterAfter(state.stabilityCounter, emas, Threshold(state))
                 /\ PostedOf(posted', "finish") # {} <=>
                        /\ emas # <<>>
                        /\ Last(emas) < Threshold(state)
                        /\ state'.stabilityCounter >= STABILITY_WINDOW
        /\ handled' \notin {"frame", "init", "reset"} =>
             state'.stabilityCounter = state.stabilityCounter]_vars

\* one callback ran two checks and the second, with an EMA over the threshold,
\* set the counter back to 0
C26_Witness ==
    /\ handled = "frame"
    /\ Len(EmasOf(posted)) = 2
    /\ EmasOf(posted)[1] < Threshold(state)
    /\ EmasOf(posted)[2] >= Threshold(state)
    /\ state.stabilityCounter = 0

----------------------------------------------------------------------------
(* The worker of worker_v2.js: what differs from worker_v3.js.  The pixel   *)
(* of a cell is written when the cell is hit; rescaleAll() re-normalises    *)
(* the buffer on stop, colour changes and getBlob; renderFrame() only draws. *)

\* lines 259-268
rescaleAll(m) ==
    [m EXCEPT !.st.pixelData =
        [i \in DOMAIN @ |->
            IF i \in DOMAIN m.st.imageMatrix /\ m.st.imageMatrix[i] >= 0
            THEN NormalizedPixel(m.st, i) ELSE @[i]]]

\* lines 238-257: the hit, the running maximum, the pixel of the cell
WriteCellV2(st, index) ==
    LET st1 == WriteCell(st, index)
    IN  IF index < 0 \/ index >= Len(st.imageMatrix) \/ index >= Len(st.pixelData) THEN st1
        ELSE [st1 EXCEPT !.pixelData[index + 1] = NormalizedPixel(st1, index + 1)]

RECURSIVE WriteCellsV2(_, _)
WriteCellsV2(st, indices) ==
    IF indices = <<>> THEN st
    ELSE WriteCellsV2(WriteCellV2(st, Head(indices)), Tail(indices))

PlotV2(m) == IF m.threw THEN m ELSE [m EXCEPT !.st = WriteCellsV2(m.st, PlotIndices(m.st))]

updateMatrixV2(m) == {PlotV2(x) : x \in updateCurrentPoint(m)}

\* lines 327-331
renderFrameV2(m) ==
    IF m.threw THEN m
    ELSE LET r == renderCanvas(m)
         IN  IF r.threw THEN r ELSE Post(r, [type |-> "render"])

\* lines 395-405
stopV2(m) ==
    IF m.threw \/ ~m.st.isRunning THEN m
    ELSE renderFrameV2(rescaleAll([m EXCEPT !.st.runTime = 0,
                                            !.st.isRunning = FALSE,
                                            !.pending = IF m.st.animationFrameId # 0
                                                        THEN @ \ {m.st.animationFrameId} ELSE @,
                                            !.st.animationFrameId = 0]))

RECURSIVE MatrixStepsV2(_, _)
MatrixStepsV2(S, n) == IF n = 0 THEN S ELSE MatrixStepsV2(Bind(S, updateMatrixV2), n - 1)

\* lines 365-374
AfterBatchV2(m) ==
    IF m.threw THEN m
    ELSE
    LET ppb == IF m.st.settings.symmetrical THEN m.st.settings.sides * 2 ELSE 1
        m1  == [m EXCEPT !.st.iterations = @ + DEFAULT_BATCH_SIZE * ppb]
    IN  IF m1.st.settings.autoStop /\ m1.st.iterations >= DEFAULT_STABILITY_INTERVAL
        THEN IF Converged(m1.st)
             THEN [stopV2(Post(checkStability(m1),
                               [type |-> "finish", timed |-> m1.st.runTime # 0]))
                     EXCEPT !.ret = TRUE]
             ELSE checkStability(m1)
        ELSE m1

BatchV2(m) ==
    IF m.threw \/ m.ret THEN {m}
    ELSE {AfterBatchV2(x) : x \in MatrixStepsV2({m}, DEFAULT_BATCH_SIZE)}

RECURSIVE BatchesV2(_, _)
BatchesV2(S, n) == IF n = 0 THEN S ELSE BatchesV2(Bind(S, BatchV2), n - 1)

\* lines 377-384
AfterLoopV2(m, due) ==
    IF m.threw \/ m.ret THEN m
    ELSE Schedule(IF due /\ m.st.settings.liveRendering THEN renderFrameV2(m) ELSE m)

drawLoopV2(m, n, due) ==
    IF ~m.st.isRunning THEN {m}
    ELSE {AfterLoopV2(x, due) : x \in BatchesV2({m}, n)}

\* lines 415-426: the body of setup(), then the initial render
InitMsgV2(D) ==
    /\ ctx /\ state.settings = NoSettings
    /\ \E newSettings \in D.init : \E m \in setup(Machine, newSettings) :
          Commit(renderFrameV2(m))
    /\ handled' = "init"
    /\ UNCHANGED halted

\* lines 427-444: the settings are replaced before stop()
ResetMsgV2(D) ==
    /\ Ready
    /\ \E newSettings \in D.init :
          \E m \in setup(stopV2([Machine EXCEPT !.st.settings = newSettings]), newSettings) :
              Commit(renderFrameV2(m))
    /\ handled' = "reset"
    /\ UNCHANGED halted

StopMsgV2 == Ready /\ Commit(stopV2(Machine)) /\ halted' = TRUE /\ handled' = "stop"

\* lines 451-470
updateSettingV2(m, key, value) ==
    LET m1 == [m EXCEPT !.st.settings[key] = value]
        m2 == IF key \in {"bgColor", "fgColor", "solidBg"} THEN rescaleAll(updateColors(m1))
              ELSE IF key = "gammaExponent" THEN rescaleAll(m1)
              ELSE m1
        needsRender == \/ key \in {"bgColor", "fgColor", "solidBg", "gammaExponent"}
                       \/ key \in {"drawCircle", "drawPolygon"}
                       \/ (key = "liveRendering" /\ value = TRUE)
    IN  IF needsRender /\ (~m2.st.isRunning \/ m2.st.settings.liveRendering)
        THEN renderFrameV2(m2) ELSE m2

UpdateSettingMsgV2(D) ==
    /\ Ready
    /\ \E kv \in D.upd : Commit(updateSettingV2(Machine, kv[1], kv[2]))
    /\ handled' = "updateSetting"
    /\ UNCHANGED halted

\* lines 471-478
getBlobV2(m) ==
    LET r == renderCanvas(rescaleAll(m))
    IN  IF r.threw THEN r ELSE [r EXCEPT !.blobs = Append(@, [wasRunning |-> FALSE])]

GetBlobMsgV2 ==
    /\ Ready
    /\ Len(blobs) < MaxBlobs
    /\ Commit(getBlobV2(Machine))
    /\ handled' = "getBlob"
    /\ UNCHANGED halted

FrameCallbackV2 ==
    /\ WithinBounds
    /\ \E id \in pending, n \in 1..MaxBatchesPerQuantum, due \in BOOLEAN :
          \E m \in drawLoopV2([Machine EXCEPT !.pending = @ \ {id}], n, due) : Commit(m)
    /\ handled' = "frame"
    /\ UNCHANGED halted

NextV2Over(D) ==
    \/ InitCanvasMsg
    \/ InitMsgV2(D)
    \/ ResetMsgV2(D)
    \/ PlayMsg
    \/ StopMsgV2
    \/ UpdateSettingMsgV2(D)
    \/ GetBlobMsgV2
    \/ BlobReady
    \/ FrameCallbackV2

DomainV2 ==
    [init |-> {BaseSettings, [BaseSettings EXCEPT !.solidBg = TRUE]},
     upd  |-> {<<"fgColor", Teal>>}]

NextV2 == NextV2Over(DomainV2)

SpecV2 == Init /\ [][NextV2]_vars

\* C27: after a render (a frame sent to the host, or the canvas prepared for a
\* snapshot), every cell of the matrix without a hit has the pixel the
\* background fill gave it: opaque bgColor with solidBg, 0 without;
\* normalisation has written no such cell.
C27_ZeroCellsUntouched ==
    (/\ Ready
     /\ PostedOf(posted, "error") = {}
     /\ PostedOf(posted, "render") # {} \/ handled = "getBlob") =>
        \A i \in DOMAIN state.imageMatrix \cap DOMAIN state.pixelData :
            state.imageMatrix[i] = 0 => state.pixelData[i] = FlatBackground

----------------------------------------------------------------------------
(* Normaliser *)

\* what updatePixelDataFromMatrix passes as logMax
LogMax == Ln1000(1 + state.maxValue)

\* C28 as stated: while maxValue is at most 1 the normaliser yields 0 for
\* every cell of the matrix.
C28_ZeroWhileMaxOne ==
    (Ready /\ state.maxValue <= 1) =>
        \A i \in DOMAIN state.imageMatrix :
            normalizeValue(state, state.imageMatrix[i], LogMax) = 0

\* C28 amended: logMax = log(1 + maxValue) is positive in every state (maxValue
\* never goes below 1), so the normaliser never divides by zero and its zero
\* branch is never the one taken; a cell without a hit normalises to 0, and
\* with maxValue 1 a cell with its single hit normalises to 1.
C28_NeverDegenerate ==
    Ready =>
        /\ state.maxValue >= 1
        /\ LogMax > 0
        /\ \A i \in DOMAIN state.imageMatrix :
             /\ state.imageMatrix[i] = 0 =>
                    normalizeValue(state, state.imageMatrix[i], LogMax) = 0
             /\ (state.maxValue = 1 /\ state.imageMatrix[i] = 1) =>
                    normalizeValue(state, state.imageMatrix[i], LogMax) = 1000

\* cells were hit once each and none twice: maxValue is still 1
C28_Witness ==
    /\ Ready
    /\ state.maxValue = 1
    /\ \E i \in DOMAIN state.imageMatrix : state.imageMatrix[i] = 1
    /\ \E i \in DOMAIN state.imageMatrix : state.imageMatrix[i] = 0

----------------------------------------------------------------------------
(* Iteration counter *)

\* C30: a handler that runs batches (the frame or timer callback, play where
\* it enters the loop itself), with autoStop off so that no stability check
\* puts the counter back to 0, and without an exception, advances the
\* iteration counter by exactly the number of increments it made to the
\* density matrix.
C30_CounterCountsWrites ==
    [][(/\ Ready
        /\ ~state.settings.autoStop
        /\ handled' \in {"frame", "timer", "play"}
        /\ PostedOf(posted', "error") = {}) =>
           state'.iterations - state.iterations =
               SumSeq(state'.imageMatrix) - SumSeq(state.imageMatrix)]_vars

----------------------------------------------------------------------------
(* Convergence *)

\* C31: the handler that posts the finish message ends its output with a
\* stabilityCheck, the finish and a render, in that order; that render is the
\* only one it posts; the finish carries a time taken from a run timer not yet
\* cleared; afterwards the run timer is cleared, the scheduler is idle and no
\* continuation is pending.
C31_FinishOrder ==
    Finishes # {} =>
        LET n == Len(posted)
        IN  /\ n >= 3
            /\ posted[n - 2].type = "stabilityCheck"
            /\ posted[n - 1].type = "finish" /\ posted[n - 1].timed
            /\ posted[n].type = "render"
            /\ PostedOf(posted, "render") = {n}
            /\ ~state.isRunning /\ state.runTime = 0
            /\ state.animationFrameId = 0 /\ pending = {}

\* convergence in a run with liveRendering on, whose loop would have rendered
\* as well had it not returned
C31_Witness ==
    /\ Finishes # {}
    /\ handled = "frame"
    /\ state.settings.liveRendering
    /\ PostedOf(posted, "render") # {}

----------------------------------------------------------------------------
(* Live rendering *)

\* C32: a handler that starts in a running state with liveRendering off posts
\* a render only if it is stop, reset, the batch callback that posts the
\* finish message, or the updateSetting that switches liveRendering on.
C32_NoRenderWhenNotLive ==
    [][(/\ Ready
        /\ state.isRunning
        /\ ~state.settings.liveRendering
        /\ PostedOf(posted', "render") # {}) =>
           \/ handled' \in {"stop", "reset"}
           \/ handled' = "frame" /\ PostedOf(posted', "finish") # {}
           \/ /\ handled' = "updateSetting"
              /\ state'.settings.liveRendering]_vars

\* a due batch callback and a colour change, both in a running state with
\* liveRendering off, posted nothing
C32_Witness ==
    /\ Ready
    /\ state.isRunning
    /\ ~state.settings.liveRendering
    /\ state.fgColor = colorToRGB(Teal)
    /\ SumSeq(state.imageMatrix) > 0
    /\ handled \in {"frame", "updateSetting"}
    /\ posted = <<>>

----------------------------------------------------------------------------
(* Vertex set *)

\* C33: the vertex list has sides * (2 with midpoints, else 1) entries plus one
\* for the centre; without midpoints entry i is main vertex i; with midpoints
\* entry 2i is main vertex i and entry 2i+1 lies halfway (to the rounding of
\* one unit) between main vertices i and (i+1) mod sides; with centerVertex
\* the last entry is the centre and its index is the ring size, the first
\* index past the ring.
C33_VertexLayout ==
    (Ready /\ state.vertices # <<>>) =>
        LET s    == state.settings
            ring == s.sides * (IF s.midpointVertex THEN 2 ELSE 1)
            main == state.mainVertices
            v    == state.vertices
        IN  /\ Len(main) = s.sides
            /\ Len(v) = ring + (IF s.centerVertex THEN 1 ELSE 0)
            /\ \A i \in 0..(s.sides - 1) :
                  IF s.midpointVertex
                  THEN LET a == main[i + 1]
                           b == main[((i + 1) % s.sides) + 1]
                           mid == v[2 * i + 2]
                       IN  /\ v[2 * i + 1] = a
                           /\ Abs(2 * mid.x - (a.x + b.x)) <= 1
                           /\ Abs(2 * mid.y - (a.y + b.y)) <= 1
                  ELSE v[i + 1] = main[i + 1]
            /\ s.centerVertex => (v[ring + 1] = state.center /\ Len(v) - 1 = ring)

\* a pentagon with midpoints and the centre: eleven vertices
C33_Witness ==
    /\ Ready
    /\ state.settings.sides = 5
    /\ state.settings.midpointVertex /\ state.settings.centerVertex
    /\ Len(state.vertices) = 11
    /\ state.vertices[11] = state.center
    /\ state.vertices[2] # state.vertices[1]

----------------------------------------------------------------------------
(* Rules that look at a repeat *)

\* C34: under 'no-double-repeat' no index chosen by a step equals both of the
\* two entries of the Move History before it: no index three times in a row.
C34_NoTripleRepeat ==
    (Ready /\ state.settings.restriction = "no-double-repeat") =>
        \A j \in Chosen :
            j >= 3 => ~(/\ state.prevIndex[j] = state.prevIndex[j - 1]
                        /\ state.prevIndex[j] = state.prevIndex[j - 2])

\* C35: under 'no-neighbor-after-repeat' an index chosen by a step after two
\* equal entries on the ring (below ringSize) is, if on the ring itself, not
\* a ring neighbour of them.
C35_NoNeighborAfterRepeat ==
    (Ready /\ state.settings.restriction = "no-neighbor-after-repeat") =>
        \A j \in Chosen :
            (/\ j >= 3
             /\ state.prevIndex[j - 1] = state.prevIndex[j - 2]
             /\ state.prevIndex[j - 1] < ringSize
             /\ state.prevIndex[j] < ringSize)
            => Abs(state.prevIndex[j] - state.prevIndex[j - 1]) \notin {1, ringSize - 1}

----------------------------------------------------------------------------
(* Move History across a reset *)

\* C37: no handler ends in an exception (setup, with its burn-in, runs to its
\* end), and every entry of the Move History is an index of the current vertex
\* list, so that the row a step reads with it exists.
C37_NoStaleIndex ==
    Ready =>
        /\ PostedOf(posted, "error") = {}
        /\ \A j \in DOMAIN state.prevIndex :
              state.prevIndex[j] \in 0..(Len(state.vertices) - 1)

----------------------------------------------------------------------------
(* Loop continuations *)

\* C38: at most one continuation of the loop (timer or animation-frame
\* callback) is pending, and none while the scheduler is idle.
C38_OneContinuation ==
    /\ Cardinality(pending) <= 1
    /\ (Ready /\ ~state.isRunning) => pending = {}

----------------------------------------------------------------------------
(* Filled-pixel counters *)

\* C39: the cumulative filled-pixel count plus the new-pixel counter of the
\* running interval equals the number of non-zero cells of the density matrix.
C39_FilledCount ==
    Ready =>
        state.filledPixels + state.newPixelsSinceLastCheck =
            Cardinality({i \in DOMAIN state.imageMatrix : state.imageMatrix[i] # 0})

----------------------------------------------------------------------------
(* Convergence of a run left alone *)

\* C40: with autoStop on, the default threshold, the pending callback run
\* sooner or later and no stop or reset, a running scheduler leads to a
\* handler that posts the finish message and leaves the scheduler idle with
\* nothing pending (on a finite canvas the steps of a run that goes on touch
\* no new pixel from some point on); and the run never uses up the hit budget
\* of the model before that.
C40_EventuallyFinishes ==
    /\ []((Ready /\ state.isRunning) =>
              SumSeq(state.imageMatrix) < MaxHitsFair * PointsPerStep(state))
    /\ (Ready /\ state.isRunning /\ state.settings.autoStop)
          ~> (Finishes # {} /\ ~state.isRunning /\ pending = {})

\* the finish came after a check whose EMA was at or over the threshold and
\* checks that saw no new pixel
C40_Witness ==
    /\ Finishes # {}
    /\ ~state.isRunning
    /\ quiet >= 1
    /\ SumSeq(state.imageMatrix) > (STABILITY_WINDOW + 1) * PointsPerStep(state)

\* C1: once a stop message has been handled, isRunning is false and no batch
\* runs until a play message is handled, whatever else is handled in between
\* (reset, updateSetting, getBlob and its blob-ready callback included).
C1_StopHolds ==
    [][(halted' => ~state'.isRunning) /\ (halted /\ halted' => ~BatchRan)]_vars

=============================================================================
